---- MODULE Spec2Model ----
(***************************************************************************)
(* A model of pysonnet.outputs.CurrentDensity: the lazily loaded header    *)
(* and data of a Sonnet current density csv file, the accessors over them, *)
(* trim_data, copy and deepcopy.                                           *)
(*                                                                         *)
(* Floats are modelled by integers.  NaN, +inf, -inf and Python's None are *)
(* distinguished integers outside the range of the file's numbers, and the *)
(* comparisons below give NaN its IEEE meaning (every comparison with NaN  *)
(* is false).                                                              *)
(***************************************************************************)
EXTENDS Integers, Sequences, FiniteSets, TLC

VARIABLES
    file,    \* the csv file on disk, as the csv dialect tokenises it
    names,   \* the caller's variables "d" and "c": object id, 0 when unbound
    objs,    \* the CurrentDensity objects, by object id
    heap,    \* the numpy arrays the objects' _data attributes refer to
    call,    \* the last call made: operation, arguments, outcome
    hist,    \* history: the calls later states are compared with
    proj     \* the Project of projects.py, the files it made, its last call

vars == <<file, names, objs, heap, call, hist, proj>>

----------------------------------------------------------------------------
(* Bounds of the model *)

\* number of x positions (data columns) of a well-formed file
NumX == 2
\* number of y positions (data rows) of a well-formed file
NumY == 2

----------------------------------------------------------------------------
(* Values *)

None == -9999
NaN == 9999
PosInf == 1000
NegInf == -1000

\* the csv cells genfromtxt is told to read as missing
EmptyText == 9001
XPositionMarker == 9002

header_lines == 9

\* faulty variants of Geq and Leq: the bounds taken as exclusive
Geq_exclusive(a, b) == a # NaN /\ b # NaN /\ a > b
Leq_exclusive(a, b) == a # NaN /\ b # NaN /\ a < b

\* x >= y and x <= y on float64: false when either side is NaN
Geq(a, b) == a # NaN /\ b # NaN /\ a >= b
Leq(a, b) == a # NaN /\ b # NaN /\ a <= b

----------------------------------------------------------------------------
(* numpy arrays: a shape and the cells row by row.  A 1-D array of n       *)
(* elements has shape <<n>> and its cells are one row; a 2-D array of r    *)
(* rows and c columns has shape <<r, c>> and r rows of c cells.            *)

NoArr == [shape |-> <<>>, cells |-> <<>>]

\* a 0-d array, and the float a scalar accessor returns
Scalar(v) == [shape |-> <<>>, cells |-> <<<<v>>>>]

Arr1(row) == [shape |-> <<Len(row)>>, cells |-> <<row>>]

Arr2(r, c, rows) == [shape |-> <<r, c>>, cells |-> rows]

ndim(a) == Len(a.shape)

\* the elements of a 1-D array
Elems(a) == a.cells[1]

\* a[0, 1:]
RowZeroFromOne(a) == Arr1(Tail(a.cells[1]))

\* a[1:, 0]
ColZeroFromOne(a) == Arr1([i \in 1..(a.shape[1] - 1) |-> a.cells[i + 1][1]])

\* a[1:, 1:]
FromOneFromOne(a) ==
    Arr2(a.shape[1] - 1, a.shape[2] - 1,
         [i \in 1..(a.shape[1] - 1) |-> Tail(a.cells[i + 1])])

\* faulty variant: a[:, 1:]
DropFirstColumn(a) ==
    Arr2(a.shape[1], a.shape[2] - 1, [i \in 1..a.shape[1] |-> Tail(a.cells[i])])

\* a[:, :-1]
DropLastColumn(a) ==
    Arr2(a.shape[1], a.shape[2] - 1,
         [i \in 1..a.shape[1] |-> SubSeq(a.cells[i], 1, a.shape[2] - 1)])

\* the indices a boolean mask selects, in order
RECURSIVE MaskIndices(_, _)
MaskIndices(mask, k) ==
    IF k > Len(mask) THEN <<>>
    ELSE IF mask[k] THEN <<k>> \o MaskIndices(mask, k + 1)
    ELSE MaskIndices(mask, k + 1)

\* v[mask] for a 1-D array v
Mask1(v, mask) ==
    LET idx == MaskIndices(mask, 1)
    IN  Arr1([k \in 1..Len(idx) |-> Elems(v)[idx[k]]])

\* faulty variant: the first rows, as many as the mask selects
MaskRows_leading(a, mask) ==
    LET idx == MaskIndices(mask, 1)
    IN  Arr2(Len(idx), a.shape[2], [k \in 1..Len(idx) |-> a.cells[k]])

\* a[mask, :] for a 2-D array a
MaskRows(a, mask) ==
    LET idx == MaskIndices(mask, 1)
    IN  Arr2(Len(idx), a.shape[2], [k \in 1..Len(idx) |-> a.cells[idx[k]]])

\* a[:, mask] for a 2-D array a
MaskCols(a, mask) ==
    LET idx == MaskIndices(mask, 1)
    IN  Arr2(a.shape[1], Len(idx),
             [i \in 1..a.shape[1] |-> [k \in 1..Len(idx) |-> a.cells[i][idx[k]]]])

\* np.append(np.nan, y).reshape(y.size + 1, 1)
NanColumn(y) ==
    Arr2(Len(Elems(y)) + 1, 1,
         [i \in 1..(Len(Elems(y)) + 1) |-> IF i = 1 THEN <<NaN>> ELSE <<Elems(y)[i - 1]>>])

\* np.atleast_2d
AtLeast2d(a) == IF ndim(a) = 1 THEN Arr2(1, a.shape[1], a.cells) ELSE a

\* np.vstack([a, b]): NoArr stands for the ValueError of mismatched columns
vstack(a, b) ==
    LET a2 == AtLeast2d(a)
        b2 == AtLeast2d(b)
    IN  IF a2.shape[2] # b2.shape[2] THEN NoArr
        ELSE Arr2(a2.shape[1] + b2.shape[1], a2.shape[2], a2.cells \o b2.cells)

\* np.hstack([a, b]) of 2-D arrays: NoArr stands for the ValueError of mismatched rows
hstack(a, b) ==
    IF ndim(a) # 2 \/ ndim(b) # 2 THEN NoArr
    ELSE IF a.shape[1] # b.shape[1] THEN NoArr
    ELSE Arr2(a.shape[1], a.shape[2] + b.shape[2],
              [i \in 1..a.shape[1] |-> a.cells[i] \o b.cells[i]])

----------------------------------------------------------------------------
(* The csv file.  header is the rows csv.reader yields for the lines that  *)
(* precede the data (nine of them in a complete file), body the rows of    *)
(* the lines after the ninth.  A header cell is text (s), numeric text (v) *)
(* or a "Port N" marker (v = N); a body cell is a number or one of the two *)
(* missing-value texts.                                                    *)

Txt(s) == [t |-> "txt", s |-> s, v |-> 0]
Num(n) == [t |-> "num", s |-> "", v |-> n]
Port(n) == [t |-> "Port", s |-> "", v |-> n]

\* the nine header lines of a file with two ports
GoodHeader ==
    << <<Txt("1.0"), Txt(""), Txt("/sim/chip.son"), Txt("")>>,
       <<Txt(""), Txt("17.52"), Txt(""), Txt("chip.son")>>,
       <<Txt(""), Num(5)>>,
       <<Txt(""), Port(1), Txt(""), Num(2), Txt(""), Num(0),
         Port(2), Txt(""), Num(1), Txt(""), Num(90)>>,
       <<Txt(""), Txt("2a"), Num(3)>>,
       <<Txt(""), Txt("UM"), Num(1)>>,
       <<Txt(""), Num(1), Txt(""), Txt(""), Num(1), Txt(""), Txt(""), Txt(""),
         Txt(""), Num(6), Txt("UM^2")>>,
       <<Txt(""), Txt(""), Txt("Amps/Meter")>>,
       <<Txt("")>> >>

\* the x and y positions of a well-formed body, ascending or descending
Axis(n, ascending) == [k \in 1..n |-> IF ascending THEN k ELSE n + 1 - k]

\* the value the file gives at data row i, data column j
FileValue(i, j) == 10 * i + j

\* the body of a well-formed file: the row of x positions, then one row per
\* y position; every line ends in the trailing artifact cell
GridBody(xasc, yasc) ==
    [i \in 1..(NumY + 1) |->
        IF i = 1
        THEN <<EmptyText>> \o Axis(NumX, xasc) \o <<XPositionMarker>>
        ELSE <<Axis(NumY, yasc)[i - 1]>>
             \o [j \in 1..NumX |-> FileValue(i - 1, j)]
             \o <<EmptyText>>]

NoFile == [exists |-> FALSE, header |-> <<>>, body |-> <<>>]
ShortFile == [exists |-> TRUE, header |-> SubSeq(GoodHeader, 1, 3), body |-> <<>>]
HeaderOnlyFile == [exists |-> TRUE, header |-> GoodHeader, body |-> <<>>]
OneRowFile == [exists |-> TRUE, header |-> GoodHeader, body |-> <<GridBody(TRUE, TRUE)[1]>>]
RaggedFile ==
    [exists |-> TRUE, header |-> GoodHeader,
     body |-> <<GridBody(TRUE, TRUE)[1], <<1, 11>>>>]
GridFile(xasc, yasc) ==
    [exists |-> TRUE, header |-> GoodHeader, body |-> GridBody(xasc, yasc)]

GridFiles == {GridFile(xasc, yasc) : xasc \in BOOLEAN, yasc \in BOOLEAN}

Files == {NoFile, ShortFile, HeaderOnlyFile, OneRowFile, RaggedFile} \cup GridFiles

\* header line 4 of a file with three ports, not in the order of their numbers
ThreePortLine ==
    <<Txt(""), Port(2), Txt(""), Num(1), Txt(""), Num(0),
      Port(1), Txt(""), Num(3), Txt(""), Num(90),
      Port(3), Txt(""), Num(2), Txt(""), Num(45)>>

\* header line 4 with no port
NoPortLine == <<Txt(""), Txt("")>>

\* header line 4 that ends before the phase of its port
TruncatedPortLine == <<Txt(""), Port(1), Txt(""), Num(2), Txt("")>>

\* header line 4 whose drive voltage of port 1 and drive phase of port 2 are
\* not numbers
BadPortLine ==
    <<Txt(""), Port(1), Txt(""), Txt("2V"), Txt(""), Num(0),
      Port(2), Txt(""), Num(1), Txt(""), Txt("")>>

\* a header whose numeric cells are not numbers
BadHeader ==
    [GoodHeader EXCEPT
        ![3] = <<Txt(""), Txt("5GHz")>>,
        ![4] = BadPortLine,
        ![5] = <<Txt(""), Txt("2a"), Txt("top")>>,
        ![6] = <<Txt(""), Txt("UM"), Txt("1um")>>,
        ![7] = <<Txt(""), Txt("one"), Txt(""), Txt(""), Txt(""), Txt(""), Txt(""),
                 Txt(""), Txt(""), Txt("n/a"), Txt("UM^2")>>]

Headers ==
    {GoodHeader, BadHeader} \cup
    {[GoodHeader EXCEPT ![4] = line] : line \in {ThreePortLine, NoPortLine, TruncatedPortLine}}

\* well-formed data under each of the headers
HeaderFiles == {[exists |-> TRUE, header |-> h, body |-> GridBody(TRUE, TRUE)] : h \in Headers}

\* the least and greatest current density of the files that are plotted, and
\* the spacings of their axes
PlotRanges == {<<0, 0>>, <<1, 9>>, <<11, 22>>, <<100, 106>>, <<100, 145>>}

\* a well-formed file whose positions are step apart on both axes, as its
\* header says, and whose current density is range[1] everywhere but in the
\* last cell, where it is range[2]
PlotFile(range, step, ascending) ==
    [exists |-> TRUE,
     header |-> [GoodHeader EXCEPT ![7][2] = Num(step), ![7][5] = Num(step)],
     body |-> [i \in 1..(NumY + 1) |->
                 IF i = 1
                 THEN <<EmptyText>> \o [k \in 1..NumX |-> step * Axis(NumX, ascending)[k]]
                      \o <<XPositionMarker>>
                 ELSE <<step * Axis(NumY, ascending)[i - 1]>>
                      \o [j \in 1..NumX |->
                            IF i - 1 = NumY /\ j = NumX THEN range[2] ELSE range[1]]
                      \o <<EmptyText>>]]

\* float of a body cell as genfromtxt converts it
Convert(c) == IF c \in {EmptyText, XPositionMarker} THEN NaN ELSE c

\* np.squeeze of the R rows of C columns genfromtxt has read
squeeze(rows, R, C) ==
    IF R = 0 THEN Arr1(<<>>)
    ELSE IF R = 1 /\ C = 1 THEN Scalar(rows[1][1])
    ELSE IF R = 1 THEN Arr1(rows[1])
    ELSE IF C = 1 THEN Arr1([i \in 1..R |-> rows[i][1]])
    ELSE Arr2(R, C, rows)

\* np.genfromtxt(file_name, delimiter=',', skip_header=9, missing_values=[...]):
\* the exception raised, or the squeezed array
genfromtxt(f) ==
    IF ~f.exists THEN [exc |-> "OSError", arr |-> NoArr]
    ELSE IF \E i \in 1..Len(f.body) : Len(f.body[i]) # Len(f.body[1])
    THEN [exc |-> "ValueError", arr |-> NoArr]
    ELSE [exc |-> "",
          arr |-> squeeze([i \in 1..Len(f.body) |->
                              [j \in 1..Len(f.body[i]) |-> Convert(f.body[i][j])]],
                          Len(f.body),
                          IF f.body = <<>> THEN 0 ELSE Len(f.body[1]))]

\* the rows csv.reader yields for the first nine lines, or the exception
read_header(f) ==
    IF ~f.exists THEN [exc |-> "OSError", rows |-> <<>>]
    ELSE IF Len(f.header) < header_lines THEN [exc |-> "StopIteration", rows |-> <<>>]
    ELSE [exc |-> "", rows |-> SubSeq(f.header, 1, header_lines)]

----------------------------------------------------------------------------
(* A method call in progress.  m holds the attributes of self (the array   *)
(* _data refers to is held by value, data = NoArr for None), whether the   *)
(* call bound _data to a new array, the parts of the file it opened, the   *)
(* exception it raised ("" for none) and what it returns.  A method is     *)
(* written as the chain of its steps, each taking m as the step before     *)
(* left it.                                                                *)

NoScale == <<>>

\* what a call that is not plot_current has drawn
NoPlot == <<>>

Enter(o, a) ==
    [load_on_init |-> o.load_on_init,
     data_loaded |-> o.data_loaded, header_loaded |-> o.header_loaded,
     header |-> o.header, data |-> a, rebound |-> FALSE,
     reads |-> {}, exc |-> "", ret |-> NoArr, sret |-> "", scale |-> NoScale,
     volts |-> <<>>, listed |-> <<>>, msg |-> "", plot |-> NoPlot]

Raise(m, e) == [m EXCEPT !.exc = e]

\* faulty variant: nan returned for text that is not a number
conversion_to_nan(m, cell) == [m EXCEPT !.ret = Scalar(NaN)]

\* the ValueError of float(text) and int(text): its message quotes the text
conversion_error(m, cell) == [Raise(m, "ValueError") EXCEPT !.msg = cell.s]

\* open(self.file_name) by the load of a part
Opened(m, part) == [m EXCEPT !.reads = @ \cup {part}]

\* lines 325-326, reached when the nine rows were read
header_read(m, r) ==
    IF r.exc # "" THEN Raise(m, r.exc)
    ELSE [m EXCEPT !.header = r.rows, !.header_loaded = TRUE]

\* _load_header
load_header(m, f) == header_read(Opened(m, "header"), read_header(f))

\* _check_header_loaded
check_header_loaded(m, f) == IF ~m.header_loaded THEN load_header(m, f) ELSE m

\* lines 333-337: _data is bound to what genfromtxt returns before the last
\* column is sliced off, and the slice raises IndexError unless it is 2-D
data_read(m, r) ==
    IF r.exc # "" THEN Raise(m, r.exc)
    ELSE IF ndim(r.arr) # 2
    THEN Raise([m EXCEPT !.data = r.arr, !.rebound = TRUE], "IndexError")
    ELSE [m EXCEPT !.data = DropLastColumn(r.arr), !.rebound = TRUE,
                   !.data_loaded = TRUE]

\* _load_data
load_data(m, f) == data_read(Opened(m, "data"), genfromtxt(f))

\* faulty variant: the data loaded whether or not it is
check_data_loaded_anyway(m, f) == load_data(m, f)

\* _check_data_loaded
check_data_loaded(m, f) == IF ~m.data_loaded THEN load_data(m, f) ELSE m

\* faulty variant: the whole of row 0, its first cell included
x_slice_whole_row(m) == IF m.exc # "" THEN m ELSE [m EXCEPT !.ret = Arr1(m.data.cells[1])]

\* line 183
x_slice(m) == IF m.exc # "" THEN m ELSE [m EXCEPT !.ret = RowZeroFromOne(m.data)]

\* x_position
x_position(m, f) == x_slice(check_data_loaded(m, f))

\* line 189
y_slice(m) == IF m.exc # "" THEN m ELSE [m EXCEPT !.ret = ColZeroFromOne(m.data)]

\* y_position
y_position(m, f) == y_slice(check_data_loaded(m, f))

\* float(cell) and int(cell) of a header cell: NaN stands for the ValueError
ToNumber(c) == IF c.t = "num" THEN c.v ELSE NaN

\* len(cell) > 4 and cell[:4] == 'Port' (no text cell of the files modelled
\* starts with Port)
IsPortCell(c) == c.t = "Port"

\* faulty variant: each port put at the front of the list
RECURSIVE PortsUpTo_prepended(_, _)
PortsUpTo_prepended(row, k) ==
    IF k = 0 THEN <<>>
    ELSE IF IsPortCell(row[k]) THEN <<row[k].v>> \o PortsUpTo_prepended(row, k - 1)
    ELSE PortsUpTo_prepended(row, k - 1)

\* the ports list of the loops of ports, drive_voltage and drive_phase after
\* the cells 1..k of header line 4
RECURSIVE PortsUpTo(_, _)
PortsUpTo(row, k) ==
    IF k = 0 THEN <<>>
    ELSE IF IsPortCell(row[k]) THEN Append(PortsUpTo(row, k - 1), row[k].v)
    ELSE PortsUpTo(row, k - 1)

\* lines 74-78
ports_list(m) ==
    IF m.exc # "" THEN m
    ELSE [m EXCEPT !.ret = Arr1(PortsUpTo(m.header[4], Len(m.header[4])))]

\* ports
ports(m, f) == ports_list(check_header_loaded(m, f))

\* len(ports) > 0 and port == ports[-1]
LastIs(ps, port) == ps # <<>> /\ ps[Len(ps)] = port

\* the index at which the loop of drive_voltage and drive_phase returns: the
\* first cell from k on at which the last port seen is the port asked for
\* (0 when the loop ends without returning)
RECURSIVE ReturnIndex(_, _, _)
ReturnIndex(row, port, k) ==
    IF k > Len(row) THEN 0
    ELSE IF LastIs(PortsUpTo(row, k), port) THEN k
    ELSE ReturnIndex(row, port, k + 1)

\* float(self._header[3][index + offset])
cell_float(m, row, at) ==
    IF at > Len(row) THEN Raise(m, "IndexError")
    ELSE IF ToNumber(row[at]) = NaN THEN conversion_error(m, row[at])
    ELSE [m EXCEPT !.ret = Scalar(ToNumber(row[at]))]

\* faulty variant: 0.0 returned for a port that is not found
lookup_at_default(m, row, index, offset) ==
    IF index = 0 THEN [m EXCEPT !.ret = Scalar(0)]
    ELSE cell_float(m, row, index + offset)

\* the return of the loop at index, or the ValueError that lists the ports
lookup_at(m, row, index, offset) ==
    IF index = 0
    THEN [Raise(m, "ValueError") EXCEPT !.listed = PortsUpTo(row, Len(row))]
    ELSE cell_float(m, row, index + offset)

\* lines 89-96 and 107-114
lookup(m, port, offset) ==
    IF m.exc # "" THEN m
    ELSE lookup_at(m, m.header[4], ReturnIndex(m.header[4], port, 1), offset)

\* the body of drive_voltage (offset 2) and of drive_phase (offset 4)
drive_lookup(m, f, port, offset) == lookup(check_header_loaded(m, f), port, offset)

\* history: the ports whose drive voltage the call has asked for
Asked(m, port) == [m EXCEPT !.volts = Append(@, port)]

\* drive_voltage
drive_voltage(m, f, port) == Asked(drive_lookup(m, f, port, 2), port)

\* faulty variant: the offset of drive_voltage
drive_phase_offset_two(m, f, port) == drive_lookup(m, f, port, 2)

\* drive_phase
drive_phase(m, f, port) == drive_lookup(m, f, port, 4)

\* faulty variant: the last of the sequence in place of its maximum
SeqLast(q) == q[Len(q)]

\* max of a non-empty sequence of numbers
RECURSIVE SeqMax(_)
SeqMax(q) ==
    IF Len(q) = 1 THEN q[1]
    ELSE IF q[1] >= SeqMax(Tail(q)) THEN q[1] ELSE SeqMax(Tail(q))

\* lines 204-206: drive_voltage of each port of ps in turn, appended to acc,
\* stopping at the first that raises
RECURSIVE drive_voltages(_, _, _, _)
RECURSIVE voltage_appended(_, _, _, _)
drive_voltages(m, f, ps, acc) ==
    IF ps = <<>> THEN [m EXCEPT !.ret = Arr1(acc)]
    ELSE voltage_appended(drive_voltage(m, f, ps[1]), f, ps, acc)
voltage_appended(m, f, ps, acc) ==
    IF m.exc # "" THEN m
    ELSE drive_voltages(m, f, Tail(ps), Append(acc, m.ret.cells[1][1]))

\* A float of the rescaling is the fraction <<numerator, denominator>>, the
\* denominator 0 standing for inf (and 0/0 for nan) as numpy divides by zero.

\* 10 ** k
RECURSIVE TenTo(_)
TenTo(k) == IF k = 0 THEN 1 ELSE 10 * TenTo(k - 1)

\* line 211: 1e-3 * 10**(power / 10), for a power that is a multiple of 10
watts(power) ==
    IF power >= 0 THEN <<TenTo(power \div 10), 1000>>
    ELSE <<1, 1000 * TenTo((0 - power) \div 10)>>

\* line 208: voltage**2 / impedance / 2
power_data(voltage, impedance) == <<voltage * voltage, 2 * impedance>>

\* line 213: power / power_data
quotient(p, q) == <<p[1] * q[2], p[2] * q[1]>>

\* line 213: a * np.sqrt(r), each cell held as <<cell of a, r>>
times_sqrt(a, r) ==
    [a EXCEPT !.cells = [i \in 1..Len(a.cells) |->
                            [j \in 1..Len(a.cells[i]) |-> <<a.cells[i][j], r>>]]]

\* lines 208-213 with voltage the maximum of line 207; scale is the
\* fraction under the square root
scaled_by(m, power, voltage, impedance) ==
    [m EXCEPT !.scale = quotient(watts(power), power_data(voltage, impedance)),
              !.ret = times_sqrt(FromOneFromOne(m.data),
                                 quotient(watts(power), power_data(voltage, impedance)))]

\* lines 207-213, m.ret being the voltages
rescaled(m, power, impedance) ==
    IF m.exc # "" THEN m
    ELSE IF Elems(m.ret) = <<>> THEN Raise([m EXCEPT !.ret = NoArr], "ValueError")
    ELSE scaled_by(m, power, SeqMax(Elems(m.ret)), impedance)

\* lines 204-206, m.ret being self.ports
port_voltages(m, f) ==
    IF m.exc # "" THEN m ELSE drive_voltages(m, f, Elems(m.ret), <<>>)

\* faulty variant: an unset power taken as 0 dBm
density_rescaled(m, f, power, impedance) ==
    IF m.exc # "" THEN m
    ELSE rescaled(port_voltages(ports(m, f), f), IF power = None THEN 0 ELSE power,
                  impedance)

\* lines 200-213
density(m, f, power, impedance) ==
    IF m.exc # "" THEN m
    ELSE IF power = None THEN [m EXCEPT !.ret = FromOneFromOne(m.data)]
    ELSE rescaled(port_voltages(ports(m, f), f), power, impedance)

\* current_density
current_density(m, f, power, impedance) ==
    density(check_data_loaded(m, f), f, power, impedance)

\* scipy's interp2d(x, y, z) with its default linear kind needs at least
\* four grid points; the interpolant is represented by the grid it is over
interp2d(m, x, y, z) ==
    IF Len(Elems(x)) * Len(Elems(y)) < 4 THEN Raise([m EXCEPT !.ret = NoArr], "TypeError")
    ELSE [m EXCEPT !.ret = z, !.listed = Elems(x) \o Elems(y)]

\* line 225
interpolant(m, f) ==
    IF m.exc # "" THEN m
    ELSE interp2d(m, x_position(m, f).ret, y_position(m, f).ret, m.ret)

\* current_density_function
current_density_function(m, f, power, impedance) ==
    interpolant(current_density(m, f, power, impedance), f)

\* faulty variant: the last test of line 235 negated
all_unset_but_last(x_min, x_max, y_min, y_max) ==
    x_min = None /\ x_max = None /\ y_min = None /\ y_max # None

\* the test of line 235
all_unset(x_min, x_max, y_min, y_max) ==
    x_min = None /\ x_max = None /\ y_min = None /\ y_max = None

\* faulty variant: an unset upper bound taken as -inf
upper_bound_negative(b) == IF b = None THEN NegInf ELSE b

\* lines 239-246: an unset bound is -inf or +inf
lower_bound(b) == IF b = None THEN NegInf ELSE b
upper_bound(b) == IF b = None THEN PosInf ELSE b

\* np.logical_and(v >= v_min, v <= v_max)
logical_and_within(v, v_min, v_max) ==
    [k \in 1..Len(Elems(v)) |-> Geq(Elems(v)[k], v_min) /\ Leq(Elems(v)[k], v_max)]

\* lines 254-260
selected(x, y, cd, logic_x, logic_y) ==
    hstack(NanColumn(Mask1(y, logic_y)),
           vstack(Mask1(x, logic_x), MaskCols(MaskRows(cd, logic_y), logic_x)))

\* lines 251-260
within(x, y, cd, x_min, x_max, y_min, y_max) ==
    selected(x, y, cd, logical_and_within(x, x_min, x_max),
             logical_and_within(y, y_min, y_max))

\* lines 239-260: the array trim_data builds from the loaded array
trimmed(m, f, x_min, x_max, y_min, y_max) ==
    within(x_position(m, f).ret, y_position(m, f).ret,
           current_density(m, f, None, 50).ret,
           lower_bound(x_min), upper_bound(x_max), lower_bound(y_min), upper_bound(y_max))

\* line 261
rebind(m, data) ==
    IF data = NoArr THEN Raise(m, "ValueError")
    ELSE [m EXCEPT !.data = data, !.rebound = TRUE]

\* lines 237-261
trim_loaded(m, f, x_min, x_max, y_min, y_max) ==
    IF m.exc # "" THEN m ELSE rebind(m, trimmed(m, f, x_min, x_max, y_min, y_max))

\* trim_data
trim_data(m, f, x_min, x_max, y_min, y_max) ==
    IF all_unset(x_min, x_max, y_min, y_max) THEN Raise(m, "ValueError")
    ELSE trim_loaded(check_data_loaded(m, f), f, x_min, x_max, y_min, y_max)

\* line 33
init_header(m, f) == IF m.exc # "" THEN m ELSE load_header(m, f)

\* faulty variant: the exception of a load caught
init_lenient(m, f) ==
    IF ~m.load_on_init THEN m ELSE [init_header(load_data(m, f), f) EXCEPT !.exc = ""]

\* __init__
init(m, f) == IF ~m.load_on_init THEN m ELSE init_header(load_data(m, f), f)

\* the simple header properties: header row, cell, and how the cell is returned
Fields ==
    [version |-> <<1, 1, "str">>, sonnet_file_path |-> <<1, 3, "str">>,
     sonnet_version |-> <<2, 2, "str">>, sonnet_file_name |-> <<2, 4, "str">>,
     frequency |-> <<3, 2, "float">>, level_string |-> <<5, 2, "str">>,
     level |-> <<5, 3, "int">>, position_unit_string |-> <<6, 2, "unit">>,
     position_unit |-> <<6, 3, "float">>, dx |-> <<7, 2, "float">>,
     dy |-> <<7, 5, "float">>, area |-> <<7, 10, "float">>,
     area_unit_string |-> <<7, 11, "str">>, current_unit_string |-> <<8, 3, "unit">>]

\* the unit strings of position_unit_string and current_unit_string
unit_string(s) ==
    IF s = "UM" THEN "um" ELSE IF s = "Amps/Meter" THEN "A/m" ELSE s

\* the return statement of a header property
field_cell(m, cell, kind) ==
    IF kind = "str" THEN [m EXCEPT !.sret = cell.s]
    ELSE IF kind = "unit" THEN [m EXCEPT !.sret = unit_string(cell.s)]
    ELSE IF ToNumber(cell) = NaN THEN conversion_error(m, cell)
    ELSE [m EXCEPT !.ret = Scalar(ToNumber(cell))]

\* the body of a header property after _check_header_loaded
field(m, fld) ==
    IF m.exc # "" THEN m
    ELSE IF fld[2] > Len(m.header[fld[1]]) THEN Raise(m, "IndexError")
    ELSE field_cell(m, m.header[fld[1]][fld[2]], fld[3])

\* faulty variant: a header property that asks for the data first
header_field_after_data(m, f, name) ==
    field(check_header_loaded([check_data_loaded(m, f) EXCEPT !.exc = ""], f), Fields[name])

\* a header property
header_field(m, f, name) == field(check_header_loaded(m, f), Fields[name])

\* faulty variant: the edges taken as if the positions always ascend
pixel_edges_ascending(c, step) ==
    [k \in 1..(Len(c) + 1) |->
        IF k <= Len(c) THEN 2 * c[k] - step ELSE 2 * c[Len(c)] + step]

\* lines 280-285: np.concatenate([c - step / 2 * s, [c[-1] + step / 2 * s]])
\* for s = np.sign(c[-1] - c[-2]), each edge held as twice its value
pixel_edges(c, step) ==
    LET s == IF c[Len(c)] > c[Len(c) - 1] THEN 1
             ELSE IF c[Len(c)] < c[Len(c) - 1] THEN 0 - 1 ELSE 0
    IN  [k \in 1..(Len(c) + 1) |->
            IF k <= Len(c) THEN 2 * c[k] - step * s ELSE 2 * c[Len(c)] + step * s]

\* lines 280-281: x_position[-2] and y_position[-2] need two positions; the
\* drawing starts empty: the pixel edges (twice their values), the ticks of
\* the color bar in units of 10^-r, and r
signs(m) ==
    IF m.exc # "" THEN m
    ELSE IF Len(Elems(RowZeroFromOne(m.data))) < 2 \/ Len(Elems(ColZeroFromOne(m.data))) < 2
    THEN Raise(m, "IndexError")
    ELSE [m EXCEPT !.plot = [x |-> <<>>, y |-> <<>>, ticks |-> <<>>, r |-> 0]]

\* a header property read in plot_current: self.dx and self.dy of lines 282
\* and 284, the unit strings of lines 291 and 301
step_of(m, f, name) == IF m.exc # "" THEN m ELSE header_field(m, f, name)

\* lines 282-283 for the x axis and 284-285 for the y axis, m.ret being
\* self.dx or self.dy
edges(m, axis) ==
    IF m.exc # "" THEN m
    ELSE IF axis = "x"
    THEN [m EXCEPT !.plot.x = pixel_edges(Elems(RowZeroFromOne(m.data)), m.ret.cells[1][1])]
    ELSE [m EXCEPT !.plot.y = pixel_edges(Elems(ColZeroFromOne(m.data)), m.ret.cells[1][1])]

\* lines 287-291: the current density that is drawn, then the axis labels
mesh(m, f) ==
    IF m.exc # "" THEN m
    ELSE step_of(current_density([m EXCEPT !.ret = NoArr], f, None, 50), f,
                 "position_unit_string")

\* lines 293-294: .min() for up = FALSE and .max() for up = TRUE
extreme(a, up) ==
    CHOOSE v \in {a.cells[i][j] : i \in 1..a.shape[1], j \in 1..a.shape[2]} :
        \A i \in 1..a.shape[1], j \in 1..a.shape[2] :
            IF up THEN v >= a.cells[i][j] ELSE v <= a.cells[i][j]

\* line 295 for scale = 1: nine times np.linspace(lo, hi, 10)[k - 1]
linspace9(lo, hi, k) == 9 * lo + (k - 1) * (hi - lo)

\* np.floor(np.log10(t / 9)) for t > 0
floor_log10(t) ==
    CHOOSE e \in (0 - 4)..4 :
        IF e >= 0 THEN 9 * TenTo(e) <= t /\ t < 9 * TenTo(e + 1)
        ELSE 9 <= t * TenTo(0 - e) /\ t * TenTo(0 - e) < 90

\* line 297: np.round(t / 9, r) in units of 10^-r, which is np.rint(n / d):
\* to the nearest, a half to the even
rounded(t, r) ==
    LET n == IF r >= 0 THEN t * TenTo(r) ELSE t
        d == IF r >= 0 THEN 9 ELSE 9 * TenTo(0 - r)
    IN  IF 2 * (n % d) > d THEN (n \div d) + 1
        ELSE IF 2 * (n % d) < d THEN n \div d
        ELSE IF (n \div d) % 2 = 0 THEN n \div d ELSE (n \div d) + 1

\* lines 297-299 in units of 10^-r: the last tick, when it is above hi,
\* becomes np.round(hi - 10**-r, r)
ticks_rounded(lo, hi, r) ==
    [k \in 1..10 |->
        IF k < 10 THEN rounded(linspace9(lo, hi, k), r)
        ELSE IF r >= 0
        THEN (IF rounded(9 * hi, r) > hi * TenTo(r) THEN hi * TenTo(r) - 1
              ELSE rounded(9 * hi, r))
        ELSE (IF rounded(9 * hi, r) * TenTo(0 - r) > hi
              THEN rounded(9 * (hi - TenTo(0 - r)), r)
              ELSE rounded(9 * hi, r))]

\* lines 293-299 for scale = 1: the current density computed again, its
\* least and greatest; int() of the -inf that np.log10(0) gives raises
\* OverflowError, int() of the nan of a negative tick ValueError
ticks_of(m, f) ==
    LET lo == extreme(current_density(m, f, None, 50).ret, FALSE)
        hi == extreme(current_density(m, f, None, 50).ret, TRUE)
    IN  IF m.exc # "" THEN m
        ELSE IF linspace9(lo, hi, 2) = 0 THEN Raise(m, "OverflowError")
        ELSE IF linspace9(lo, hi, 2) < 0 THEN Raise(m, "ValueError")
        ELSE [m EXCEPT !.ret = NoArr, !.sret = "",
                       !.plot.r = 1 - floor_log10(linspace9(lo, hi, 2)),
                       !.plot.ticks =
                           ticks_rounded(lo, hi, 1 - floor_log10(linspace9(lo, hi, 2)))]

\* plot_current(): power None, impedance 50, scale 1; lines 300-304 label the
\* color bar and show the figure
plot_current(m, f) ==
    step_of(
        ticks_of(
            mesh(edges(step_of(edges(step_of(signs(check_data_loaded(m, f)),
                                             f, "dx"),
                                     "x"),
                               f, "dy"),
                       "y"),
                 f),
            f),
        f, "current_unit_string")

----------------------------------------------------------------------------
(* The objects.  _data is a reference into heap (0 for None): copy.copy    *)
(* shares it, copy.deepcopy does not.  _header is a list no code mutates   *)
(* and is held by value.  An object no variable names and an array no      *)
(* object refers to are reclaimed.                                         *)

Names == {"d", "c"}
ObjIds == {1, 2}
ArrIds == {1, 2}

NoObj ==
    [alive |-> FALSE, load_on_init |-> FALSE, data_loaded |-> FALSE,
     header_loaded |-> FALSE, header |-> <<>>, data |-> 0]

NoCall ==
    [op |-> "", obj |-> "", args |-> <<>>, exc |-> "", reads |-> {}, ret |-> NoArr,
     sret |-> "", scale |-> NoScale, volts |-> <<>>, listed |-> <<>>, msg |-> "",
     plot |-> NoPlot]

\* the record of a call of op on the variable n that ended as m
Called(op, n, args, m) ==
    [op |-> op, obj |-> n, args |-> args, exc |-> m.exc, reads |-> m.reads,
     ret |-> m.ret, sret |-> m.sret, scale |-> m.scale, volts |-> m.volts,
     listed |-> m.listed, msg |-> m.msg, plot |-> m.plot]

\* the array an object's _data refers to
ArrayOf(os, h, id) == IF os[id].data = 0 THEN NoArr ELSE h[os[id].data]

Referenced(os, a) == \E i \in ObjIds : os[i].alive /\ os[i].data = a

\* the lowest address no object's _data refers to
FreeArr(os) ==
    CHOOSE a \in ArrIds :
        /\ ~Referenced(os, a)
        /\ \A b \in ArrIds : ~Referenced(os, b) => a <= b

\* reference counting: unnamed objects and unreferenced arrays go
Reclaim(ns, os, h) ==
    LET os1 == [i \in ObjIds |-> IF \E n \in Names : ns[n] = i THEN os[i] ELSE NoObj]
    IN  [objs |-> os1,
         heap |-> [a \in ArrIds |-> IF Referenced(os1, a) THEN h[a] ELSE NoArr]]

\* faulty variant: an array bound anew written over the array it replaces,
\* whatever else refers to that
Store_in_place(ns, id, m) ==
    LET old == objs[id].data
        slot == IF ~m.rebound \/ old # 0 THEN old ELSE FreeArr(objs)
        os == [objs EXCEPT ![id] =
                 [alive |-> TRUE, load_on_init |-> m.load_on_init,
                  data_loaded |-> m.data_loaded, header_loaded |-> m.header_loaded,
                  header |-> m.header, data |-> slot]]
        h == IF m.rebound THEN [heap EXCEPT ![slot] = m.data] ELSE heap
    IN  Reclaim(ns, os, h)

\* the attributes of object id at the end of a call that ended as m: a
\* _data bound anew takes the address of the array it replaces when nothing
\* else refers to that, else a free one
Store(ns, id, m) ==
    LET old == objs[id].data
        others == [objs EXCEPT ![id] = NoObj]
        slot == IF ~m.rebound THEN old
                ELSE IF old # 0 /\ ~Referenced(others, old) THEN old
                ELSE FreeArr(objs)
        os == [objs EXCEPT ![id] =
                 [alive |-> TRUE, load_on_init |-> m.load_on_init,
                  data_loaded |-> m.data_loaded, header_loaded |-> m.header_loaded,
                  header |-> m.header, data |-> slot]]
        h == IF m.rebound THEN [heap EXCEPT ![slot] = m.data] ELSE heap
    IN  Reclaim(ns, os, h)

\* self at the start of a call on the variable n
Self(n) == Enter(objs[names[n]], ArrayOf(objs, heap, names[n]))

\* a call of a method on the variable n that ends as m
Method(op, n, args, m) ==
    /\ objs' = Store(names, names[n], m).objs
    /\ heap' = Store(names, names[n], m).heap
    /\ call' = Called(op, n, args, m)
    /\ UNCHANGED <<file, names, proj>>

----------------------------------------------------------------------------
(* Inputs *)

XBounds == {None} \cup 1..NumX
YBounds == {None} \cup 1..NumY
TrimArgs == XBounds \X XBounds \X YBounds \X YBounds
\* the trims of the specifications that are not about what a trim selects
SomeTrimArgs ==
    {<<None, None, None, None>>, <<2, None, None, None>>, <<None, None, None, 1>>}
Powers == {None, 0, 10}
\* powers in dBm of the specification of the header
SetPowers == {-10, 0, 20}
Impedances == {50, 0}
PortNumbers == {1, 2, 3}
FieldNames == DOMAIN Fields

----------------------------------------------------------------------------
(* Actions.  Each leaves hist to the specification it is used in.          *)

\* d = CurrentDensity(file_name, load_on_init)
Construct(load_on_init) ==
    /\ names["d"] = 0
    /\ LET m == init(Enter([NoObj EXCEPT !.load_on_init = load_on_init], NoArr), file)
           id == 1
       IN  /\ call' = Called("init", "d", <<IF load_on_init THEN 1 ELSE 0>>, m)
           /\ IF m.exc # ""
              THEN UNCHANGED <<names, objs, heap>>
              ELSE /\ names' = [names EXCEPT !["d"] = id]
                   /\ objs' = Store(names', id, m).objs
                   /\ heap' = Store(names', id, m).heap
    /\ UNCHANGED <<file, proj>>

XPosition(n) ==
    /\ names[n] # 0
    /\ Method("x_position", n, <<>>, x_position(Self(n), file))

YPosition(n) ==
    /\ names[n] # 0
    /\ Method("y_position", n, <<>>, y_position(Self(n), file))

CurrentDensity(n, power, impedance) ==
    /\ names[n] # 0
    /\ Method("current_density", n, <<power, impedance>>,
              current_density(Self(n), file, power, impedance))

CurrentDensityFunction(n, power, impedance) ==
    /\ names[n] # 0
    /\ Method("current_density_function", n, <<power, impedance>>,
              current_density_function(Self(n), file, power, impedance))

\* the arguments of a trim_data call are kept in hist, not in call
TrimData(n, b) ==
    /\ names[n] # 0
    /\ Method("trim_data", n, <<>>, trim_data(Self(n), file, b[1], b[2], b[3], b[4]))

HeaderField(n, name) ==
    /\ names[n] # 0
    /\ Method(name, n, <<>>, header_field(Self(n), file, name))

Ports(n) ==
    /\ names[n] # 0
    /\ Method("ports", n, <<>>, ports(Self(n), file))

DriveVoltage(n, port) ==
    /\ names[n] # 0
    /\ Method("drive_voltage", n, <<port>>, drive_voltage(Self(n), file, port))

DrivePhase(n, port) ==
    /\ names[n] # 0
    /\ Method("drive_phase", n, <<port>>, drive_phase(Self(n), file, port))

PlotCurrent(n) ==
    /\ names[n] # 0
    /\ Method("plot_current", n, <<>>, plot_current(Self(n), file))

\* what copy.copy(self) returns: a new object whose attributes are those of
\* self, the array of _data shared
copy(id) == [self |-> FALSE, shared |-> TRUE]

\* faulty variant: self returned, no object made
deepcopy_self(id) == [self |-> TRUE, shared |-> TRUE]

\* what copy.deepcopy(self) returns: a new object with an array of its own
deepcopy(id) == [self |-> FALSE, shared |-> FALSE]

\* c = r, where r is the copy made of object id: the object c named before
\* is dropped, the new object and (for a deep copy) its array are allocated
Assign(id, r) ==
    LET w0 == Reclaim([names EXCEPT !["c"] = 0], objs, heap)
        new == CHOOSE i \in ObjIds : ~w0.objs[i].alive
        src == w0.objs[id]
        slot == IF src.data = 0 \/ r.shared THEN src.data ELSE FreeArr(w0.objs)
        os == [w0.objs EXCEPT ![new] = [src EXCEPT !.data = slot]]
        h == IF slot # 0 THEN [w0.heap EXCEPT ![slot] = w0.heap[src.data]] ELSE w0.heap
        aliased == [names EXCEPT !["c"] = id]
    IN  IF r.self
        THEN [names |-> aliased, objs |-> Reclaim(aliased, objs, heap).objs,
              heap |-> Reclaim(aliased, objs, heap).heap]
        ELSE [names |-> [names EXCEPT !["c"] = new], objs |-> os, heap |-> h]

\* c = d.copy()
Copy ==
    /\ names["d"] # 0
    /\ LET w == Assign(names["d"], copy(names["d"]))
       IN  /\ names' = w.names
           /\ objs' = w.objs
           /\ heap' = w.heap
    /\ call' = [NoCall EXCEPT !.op = "copy", !.obj = "d"]
    /\ UNCHANGED <<file, proj>>

\* c = d.deepcopy()
DeepCopy ==
    /\ names["d"] # 0
    /\ LET w == Assign(names["d"], deepcopy(names["d"]))
       IN  /\ names' = w.names
           /\ objs' = w.objs
           /\ heap' = w.heap
    /\ call' = [NoCall EXCEPT !.op = "deepcopy", !.obj = "d"]
    /\ UNCHANGED <<file, proj>>

\* the simulator, or anything else, rewrites the file
WriteFile(f) ==
    /\ f # file
    /\ file' = f
    /\ call' = [NoCall EXCEPT !.op = "write_file"]
    /\ UNCHANGED <<names, objs, heap, proj>>

----------------------------------------------------------------------------
(* The project of projects.py.  Paths are numbers: 1 and 2 can be written, *)
(* 3 is in no directory.  log lists what the last call did: the files it   *)
(* made and the process it started; disk is the set of files made so far.  *)

\* no project is constructed yet
NoProject ==
    [kind |-> "", project_file_path |-> None, sonnet_path |-> "", sweeps |-> "",
     sweep_type |-> "", disk |-> {}, log |-> <<>>, exc |-> ""]

\* faulty variant: the path of the first file made kept as the project file
make_sonnet_file_first_kept(p, file_path) ==
    IF p.kind = "Project" THEN [p EXCEPT !.exc = "NotImplementedError"]
    ELSE IF file_path \notin {1, 2} THEN [p EXCEPT !.exc = "FileNotFoundError"]
    ELSE [p EXCEPT !.disk = @ \cup {file_path},
                   !.project_file_path = IF @ = None THEN file_path ELSE @,
                   !.log = Append(@, <<"make_sonnet_file", file_path>>)]

\* make_sonnet_file of Project (lines 51-57), GeometryProject (285-305) and
\* NetlistProject (586-603): open(file_path, "w") fails for path 3
make_sonnet_file(p, file_path) ==
    IF p.kind = "Project" THEN [p EXCEPT !.exc = "NotImplementedError"]
    ELSE IF file_path \notin {1, 2} THEN [p EXCEPT !.exc = "FileNotFoundError"]
    ELSE [p EXCEPT !.disk = @ \cup {file_path},
                   !.project_file_path = file_path,
                   !.log = Append(@, <<"make_sonnet_file", file_path>>)]

\* run(sweep_type, file_path): line 105 indexes the section 'parameter_sweeps',
\* which no loaded project has, when the frequency sweeps are empty; found
\* tells whether the operating system finds the program of the command
run(p, sweep_type, file_path, found) ==
    LET typed == [p EXCEPT !.sweep_type =
                      IF sweep_type = "frequency" THEN "STD"
                      ELSE IF sweep_type = "parameter" THEN "VARSWP" ELSE "OPTIMIZE"]
        made == IF file_path # None THEN make_sonnet_file(typed, file_path) ELSE typed
    IN  IF sweep_type \notin {"frequency", "parameter", "optimize"}
        THEN [p EXCEPT !.exc = "AssertionError"]
        ELSE IF p.sweeps = "" THEN [p EXCEPT !.exc = "KeyError"]
        ELSE IF made.exc # "" THEN made
        ELSE IF made.project_file_path = None THEN [made EXCEPT !.exc = "ValueError"]
        ELSE IF made.sonnet_path = "" THEN [made EXCEPT !.exc = "ValueError"]
        ELSE IF ~found THEN [made EXCEPT !.exc = "FileNotFoundError"]
        ELSE [made EXCEPT !.log =
                  Append(@, <<"Popen", made.sonnet_path, "-v", made.project_file_path>>)]

\* p = Project(), GeometryProject() or NetlistProject(), lines 29-49: the
\* configuration that is loaded gives the sweeps and the path of sonnet
NewProject(kind, sweeps, sonnet_path) ==
    /\ proj.kind = ""
    /\ proj' = [NoProject EXCEPT !.kind = kind, !.sweeps = sweeps,
                                 !.sonnet_path = sonnet_path]
    /\ call' = [NoCall EXCEPT !.op = "init", !.args = <<kind>>]
    /\ UNCHANGED <<file, names, objs, heap, hist>>

MakeSonnetFile(file_path) ==
    /\ proj.kind # ""
    /\ proj' = make_sonnet_file([proj EXCEPT !.log = <<>>, !.exc = ""], file_path)
    /\ call' = [NoCall EXCEPT !.op = "make_sonnet_file", !.args = <<file_path>>,
                              !.exc = proj'.exc]
    /\ UNCHANGED <<file, names, objs, heap, hist>>

Run(sweep_type, file_path, found) ==
    /\ proj.kind # ""
    /\ proj' = run([proj EXCEPT !.log = <<>>, !.exc = ""], sweep_type, file_path, found)
    /\ call' = [NoCall EXCEPT !.op = "run", !.args = <<sweep_type, file_path>>,
                              !.exc = proj'.exc]
    /\ UNCHANGED <<file, names, objs, heap, hist>>

----------------------------------------------------------------------------
(* History.  An entry of hist is a call with its arguments and self as it  *)
(* was before the call.                                                    *)

Traced(op, n, args) ==
    [op |-> op, obj |-> n, args |-> args,
     before |-> IF names[n] = 0 THEN NoObj ELSE objs[names[n]],
     arr |-> IF names[n] = 0 THEN NoArr ELSE ArrayOf(objs, heap, names[n])]

\* the call that made a copy of d
CopyMade(op) == [op |-> op, obj |-> "d", args |-> <<>>, before |-> NoObj, arr |-> NoArr]

----------------------------------------------------------------------------
(* Spec: one document, every accessor, a file that may be rewritten.       *)

InitFiles(fs) ==
    /\ file \in fs
    /\ names = [n \in Names |-> 0]
    /\ objs = [i \in ObjIds |-> NoObj]
    /\ heap = [a \in ArrIds |-> NoArr]
    /\ call = NoCall
    /\ hist = <<>>
    /\ proj = NoProject

\* the files of the specifications that are not about what a trim selects
SomeFiles ==
    {NoFile, ShortFile, HeaderOnlyFile, OneRowFile, RaggedFile,
     GridFile(TRUE, TRUE), GridFile(FALSE, FALSE)}

Init == InitFiles(SomeFiles)

Next ==
    /\ \/ \E b \in BOOLEAN : Construct(b)
       \/ XPosition("d")
       \/ YPosition("d")
       \/ \E p \in Powers, z \in Impedances : CurrentDensity("d", p, z)
       \/ \E p \in Powers, z \in Impedances : CurrentDensityFunction("d", p, z)
       \/ \E b \in SomeTrimArgs : TrimData("d", b)
       \/ \E name \in FieldNames : HeaderField("d", name)
       \/ Ports("d")
       \/ \E p \in PortNumbers : DriveVoltage("d", p)
       \/ \E p \in PortNumbers : DrivePhase("d", p)
       \/ PlotCurrent("d")
       \/ \E f \in SomeFiles : WriteFile(f)
    /\ UNCHANGED hist

Spec == Init /\ [][Next]_vars

----------------------------------------------------------------------------
(* SpecTrim: one document of a file that stays as it is, trimmed once and *)
(* then once more, each time with every combination of bounds.  hist holds *)
(* the trims made.  Every grid a sequence of trims leads to is the outcome *)
(* of some first trim, so the second trim is applied to every grid.        *)

\* well-formed files in each direction of the axes, a file whose load fails
\* after _data was bound and a file that is not there
TrimFiles == GridFiles \cup {OneRowFile, NoFile}

InitTrim == InitFiles(TrimFiles)

FirstTrimData(b) ==
    /\ hist = <<>>
    /\ TrimData("d", b)
    /\ hist' = <<Traced("trim_data", "d", b)>>

SecondTrimData(b) ==
    /\ hist # <<>> /\ Tail(hist) = <<>>
    /\ TrimData("d", b)
    /\ hist' = Append(hist, Traced("trim_data", "d", b))

NextTrim ==
    \/ \E b \in BOOLEAN : Construct(b) /\ UNCHANGED hist
    \/ \E b \in TrimArgs : FirstTrimData(b)
    \/ \E b \in TrimArgs : SecondTrimData(b)

SpecTrim == InitTrim /\ [][NextTrim]_vars

----------------------------------------------------------------------------
(* SpecCopy: a document and its copy, each trimmed and loaded.  hist holds *)
(* the call that made the copy.                                            *)

CopyTraced ==
    /\ Copy
    /\ hist' = <<CopyMade("copy")>>

DeepCopyTraced ==
    /\ DeepCopy
    /\ hist' = <<CopyMade("deepcopy")>>

NextCopy ==
    \/ CopyTraced
    \/ DeepCopyTraced
    \/ /\ \/ \E b \in BOOLEAN : Construct(b)
          \/ \E n \in Names : XPosition(n)
          \/ \E n \in Names : HeaderField(n, "version")
          \/ \E n \in Names, b \in SomeTrimArgs : TrimData(n, b)
       /\ UNCHANGED hist

SpecCopy == Init /\ [][NextCopy]_vars

----------------------------------------------------------------------------
(* SpecHeader: one document of a file with well-formed data whose header   *)
(* may have any number of ports and cells that are not numbers.            *)

InitHeader == InitFiles(HeaderFiles \cup {NoFile})

NextHeader ==
    /\ \/ \E b \in BOOLEAN : Construct(b)
       \/ \E name \in FieldNames : HeaderField("d", name)
       \/ Ports("d")
       \/ \E port \in PortNumbers : DriveVoltage("d", port)
       \/ \E port \in PortNumbers : DrivePhase("d", port)
       \/ \E power \in SetPowers, impedance \in Impedances :
             CurrentDensity("d", power, impedance)
       \/ \E f \in HeaderFiles \cup {NoFile} : WriteFile(f)
    /\ UNCHANGED hist

SpecHeader == InitHeader /\ [][NextHeader]_vars

----------------------------------------------------------------------------
(* SpecPlot: one document that is plotted, of files with several spacings, *)
(* directions and ranges of current density.                               *)

NextPlot ==
    /\ \/ \E b \in BOOLEAN : Construct(b)
       \/ PlotCurrent("d")
       \/ \E b \in SomeTrimArgs : TrimData("d", b)
    /\ UNCHANGED hist

SpecPlot ==
    /\ InitFiles({PlotFile(range, step, ascending) :
                     range \in PlotRanges, step \in {1, 2}, ascending \in BOOLEAN})
    /\ [][NextPlot]_vars

----------------------------------------------------------------------------
(* SpecProject: one project that is made into files and run.               *)

NextProject ==
    \/ \E kind \in {"Project", "GeometryProject", "NetlistProject"},
          sweeps \in {"", "STEP 5"}, sonnet_path \in {"", "/opt/sonnet"} :
            NewProject(kind, sweeps, sonnet_path)
    \/ \E file_path \in 1..3 : MakeSonnetFile(file_path)
    \/ \E sweep_type \in {"frequency", "parameter", "optimize", "time"},
          file_path \in {None} \cup 1..3, found \in BOOLEAN :
            Run(sweep_type, file_path, found)

SpecProject == InitFiles({NoFile}) /\ [][NextProject]_vars

----------------------------------------------------------------------------
(* What the claims speak of: the axes and the values of an array, read     *)
(* cell by cell.                                                           *)

Obj(n) == objs[names[n]]
Data(n) == ArrayOf(objs, heap, names[n])
Bound(n) == names[n] # 0
Loaded(n) == Bound(n) /\ Obj(n).data_loaded

XAxis(a) == [j \in 1..(a.shape[2] - 1) |-> a.cells[1][j + 1]]
YAxis(a) == [i \in 1..(a.shape[1] - 1) |-> a.cells[i + 1][1]]
Values(a) ==
    [i \in 1..(a.shape[1] - 1) |-> [j \in 1..(a.shape[2] - 1) |-> a.cells[i + 1][j + 1]]]
Grid(a) == <<XAxis(a), YAxis(a), Values(a)>>

\* the last trim traced, and the array its document held when the trim was
\* called: the one it had if the data was loaded, else the one the load gives
LastTrim == hist[Len(hist)]
ArrayBefore(h) ==
    IF h.before.data_loaded THEN h.arr ELSE load_data(Enter(NoObj, NoArr), file).data
AllNone == <<None, None, None, None>>

\* v lies within the bounds, an unset bound excluding nothing
InBounds(v, lo, hi) == (lo = None \/ lo <= v) /\ (hi = None \/ v <= hi)

\* the subsequence of q within the bounds
RECURSIVE Between(_, _, _)
Between(q, lo, hi) ==
    IF q = <<>> THEN <<>>
    ELSE (IF InBounds(Head(q), lo, hi) THEN <<Head(q)>> ELSE <<>>)
         \o Between(Tail(q), lo, hi)

\* the position of v in an axis
IndexOf(axis, v) == CHOOSE k \in 1..Len(axis) : axis[k] = v

SeqMin(q) == CHOOSE v \in {q[k] : k \in 1..Len(q)} : \A k \in 1..Len(q) : v <= q[k]
SeqMost(q) == CHOOSE v \in {q[k] : k \in 1..Len(q)} : \A k \in 1..Len(q) : v >= q[k]

\* C1: trim_data with the four bounds unset raises, and leaves the document
\* as it was: attributes, grid and loaded flags unchanged, the file not opened.
C1_TrimUnsetFails ==
    (hist # <<>> /\ LastTrim.args = AllNone) =>
        /\ call.op = "trim_data" /\ call.exc = "ValueError"
        /\ call.reads = {}
        /\ Obj("d") = LastTrim.before
        /\ Data("d") = LastTrim.arr

C1_Witness ==
    /\ hist # <<>> /\ LastTrim.args = AllNone
    /\ ~LastTrim.before.data_loaded /\ ~LastTrim.before.header_loaded
    /\ file \in GridFiles
    /\ call.exc = "ValueError"

\* C2: after a trim with some bound set, x_axis is the subsequence of the
\* previous x_axis within [x_min, x_max] and y_axis that of the previous
\* y_axis within [y_min, y_max], in the previous order; an unset bound
\* excludes nothing and an element equal to a bound is kept.
C2_TrimSelectsInclusive ==
    (hist # <<>> /\ LastTrim.args # AllNone /\ call.exc = "") =>
        /\ XAxis(Data("d")) =
              Between(XAxis(ArrayBefore(LastTrim)), LastTrim.args[1], LastTrim.args[2])
        /\ YAxis(Data("d")) =
              Between(YAxis(ArrayBefore(LastTrim)), LastTrim.args[3], LastTrim.args[4])

C2_Witness ==
    /\ hist # <<>> /\ call.exc = ""
    /\ LastTrim.args[2] # None /\ LastTrim.args[3] = None
    /\ \E k \in 1..Len(XAxis(Data("d"))) : XAxis(Data("d"))[k] = LastTrim.args[2]
    /\ Len(XAxis(Data("d"))) < Len(XAxis(ArrayBefore(LastTrim)))
    /\ YAxis(Data("d")) = YAxis(ArrayBefore(LastTrim))

\* the grid the first trim of the history started from
Origin == ArrayBefore(hist[1])

Occurs(axis, v) == \E k \in 1..Len(axis) : axis[k] = v

\* C3: after any sequence of trims every coordinate pair (x, y) of the grid
\* is a pair of the grid the trims started from, and the value stored at the
\* position of (x, y) is the value that was stored at the position of (x, y)
\* in that grid.
C3_TrimKeepsCorrespondence ==
    (hist # <<>> /\ Loaded("d")) =>
        \A i \in 1..Len(YAxis(Data("d"))) : \A j \in 1..Len(XAxis(Data("d"))) :
            /\ Occurs(YAxis(Origin), YAxis(Data("d"))[i])
            /\ Occurs(XAxis(Origin), XAxis(Data("d"))[j])
            /\ Values(Data("d"))[i][j] =
                  Values(Origin)[IndexOf(YAxis(Origin), YAxis(Data("d"))[i])]
                                [IndexOf(XAxis(Origin), XAxis(Data("d"))[j])]

C3_Witness ==
    /\ Len(hist) = 2 /\ call.exc = "" /\ Loaded("d")
    /\ XAxis(Data("d")) # <<>> /\ YAxis(Data("d")) # <<>>
    /\ XAxis(Data("d"))[1] # XAxis(Origin)[1]
    /\ YAxis(Data("d"))[1] # YAxis(Origin)[1]
    /\ Len(YAxis(Data("d"))) < Len(YAxis(ArrayBefore(hist[2])))
    /\ Len(XAxis(ArrayBefore(hist[2]))) < Len(XAxis(Origin))

\* C4: whenever the data is loaded, also after trims that select no point
\* of an axis, current_density() has len(y_position) rows and
\* len(x_position) columns.
C4_ValuesShape ==
    Loaded("d") =>
        current_density(Self("d"), file, None, 50).ret.shape =
            <<Len(Elems(y_position(Self("d"), file).ret)),
              Len(Elems(x_position(Self("d"), file).ret))>>

C4_Witness ==
    /\ hist # <<>> /\ call.exc = "" /\ Loaded("d")
    /\ x_position(Self("d"), file).ret.shape = <<0>>
    /\ y_position(Self("d"), file).ret.shape # <<0>>
    /\ current_density(Self("d"), file, None, 50).ret.shape[2] = 0

\* the least and the greatest coordinate of both axes of a grid
Extent(a) ==
    <<SeqMin(XAxis(a)), SeqMost(XAxis(a)), SeqMin(YAxis(a)), SeqMost(YAxis(a))>>

\* C5: a trim whose four bounds are the least and the greatest coordinate of
\* x_position and of y_position leaves the axes and the values as they were,
\* and a trim repeated with the same bounds leaves what the first one left.
C5_TrimToExtentIsNoOp ==
    (hist # <<>> /\ call.exc = "" /\ LastTrim.args # AllNone) =>
        /\ ( /\ XAxis(ArrayBefore(LastTrim)) # <<>>
             /\ YAxis(ArrayBefore(LastTrim)) # <<>>
             /\ LastTrim.args = Extent(ArrayBefore(LastTrim)) )
           => Grid(Data("d")) = Grid(ArrayBefore(LastTrim))
        /\ (Len(hist) = 2 /\ hist[1].args = hist[2].args)
           => Grid(Data("d")) = Grid(hist[2].arr)

C5_Witness ==
    /\ Len(hist) = 2 /\ call.exc = ""
    /\ hist[1].args = hist[2].args
    /\ XAxis(hist[2].arr) # <<>> /\ YAxis(hist[2].arr) # <<>>
    /\ hist[2].args = Extent(hist[2].arr)
    /\ Len(XAxis(hist[2].arr)) < Len(XAxis(Origin))
    /\ Len(YAxis(hist[2].arr)) > 1

\* the interval of b lies inside the interval of a, an unset bound being
\* infinite
InsideAxis(lo2, hi2, lo1, hi1) ==
    /\ lo1 = None \/ (lo2 # None /\ lo1 <= lo2)
    /\ hi1 = None \/ (hi2 # None /\ hi2 <= hi1)
Inside(b, a) ==
    InsideAxis(b[1], b[2], a[1], a[2]) /\ InsideAxis(b[3], b[4], a[3], a[4])

\* the array trim_data(b) leaves when it is called on the grid h started from
Direct(h, b) ==
    trim_data([Enter(h.before, ArrayBefore(h)) EXCEPT !.data_loaded = TRUE],
              file, b[1], b[2], b[3], b[4]).data

\* C6: when trim(B1) and then trim(B2) have succeeded and B2 lies inside B1
\* on both axes, the axes and the values are those that trim(B2) alone
\* leaves when it is applied to the grid trim(B1) started from.
C6_TrimComposes ==
    (Len(hist) = 2 /\ call.exc = "" /\ Inside(hist[2].args, hist[1].args)) =>
        Grid(Data("d")) = Grid(Direct(hist[1], hist[2].args))

C6_Witness ==
    /\ Len(hist) = 2 /\ call.exc = "" /\ Inside(hist[2].args, hist[1].args)
    /\ hist[1].args # hist[2].args
    /\ XAxis(Data("d")) # <<>> /\ YAxis(Data("d")) # <<>>
    /\ Len(XAxis(Data("d"))) < Len(XAxis(ArrayBefore(hist[2])))
    /\ Len(YAxis(ArrayBefore(hist[2]))) < Len(YAxis(Origin))

\* what a variable shows of its document: the loaded flags, the header and
\* the array of the axes and the values
NoView == <<FALSE, FALSE, <<>>, NoArr>>
View(n) ==
    IF ~Bound(n) THEN NoView
    ELSE <<Obj(n).data_loaded, Obj(n).header_loaded, Obj(n).header, Data(n)>>

\* C7: after c = d.deepcopy(), a load or a trim through one of the two
\* variables leaves the axes, the values, the header and the loaded flags of
\* the document of the other variable unchanged.
C7_DeepCopyIndependent ==
    [][(hist # <<>> /\ hist[1].op = "deepcopy" /\ call'.op \notin {"copy", "deepcopy"})
          => \A n \in Names : call'.obj # n => View(n)' = View(n)]_vars

C7_Witness ==
    /\ hist # <<>> /\ hist[1].op = "deepcopy"
    /\ call.op = "trim_data" /\ call.obj = "d" /\ call.exc = ""
    /\ Loaded("d") /\ Loaded("c")
    /\ Obj("c").header_loaded /\ ~Obj("d").header_loaded
    /\ XAxis(Data("d")) # XAxis(Data("c"))

\* the loaded flag of a part of the document of d
PartLoaded(part) ==
    Bound("d") /\ (IF part = "data" THEN Obj("d").data_loaded ELSE Obj("d").header_loaded)

\* C8: once a part of the document (header or data) is loaded, every later
\* step leaves its loaded flag true and no later call opens the file for
\* that part, whatever the call is and whatever became of the file.
C8_ReadAtMostOnce ==
    [][\A part \in {"header", "data"} :
          PartLoaded(part) => (PartLoaded(part)' /\ part \notin call'.reads)]_vars

C8_Witness ==
    /\ call.op = "current_density_function" /\ call.args[1] # None
    /\ call.exc = "" /\ call.reads = {}
    /\ file = NoFile
    /\ PartLoaded("header") /\ PartLoaded("data")

\* C9: a document whose data is not loaded retains no array, and one whose
\* header is not loaded retains no header rows, whatever load failed before.
C9_FailedLoadRetainsNothing ==
    Bound("d") =>
        /\ ~Obj("d").data_loaded => Obj("d").data = 0
        /\ ~Obj("d").header_loaded => Obj("d").header = <<>>

\* C10: current_density with power unset returns the values of the document,
\* element for element and in their shape, for every impedance, without
\* asking for a drive voltage, scaling, or opening the header.
C10_UnsetPowerReturnsValues ==
    (call.op = "current_density" /\ call.args[1] = None /\ call.exc = "") =>
        /\ call.scale = NoScale
        /\ call.volts = <<>>
        /\ "header" \notin call.reads
        /\ call.ret.shape = <<Len(YAxis(Data("d"))), Len(XAxis(Data("d")))>>
        /\ call.ret.cells = Values(Data("d"))

C10_Witness ==
    /\ call.op = "current_density" /\ call.args = <<None, 0>> /\ call.exc = ""
    /\ call.ret.shape = <<NumY, NumX>>
    /\ call.ret.cells = Values(Data("d"))
    /\ ~Obj("d").header_loaded

----------------------------------------------------------------------------
(* The header as the claims read it: the marker cells of header line 4 and *)
(* the cells that follow each.                                             *)

\* header line 4 of the document of d
PortLine == Obj("d").header[4]

HeaderLoaded == Bound("d") /\ Obj("d").header_loaded

\* the positions of the "Port N" marker cells of a header line
Markers(row) == {k \in 1..Len(row) : row[k].t = "Port"}

\* the port numbers of the marker cells, in the order of the cells
RECURSIVE MarkerPorts(_)
MarkerPorts(row) ==
    IF row = <<>> THEN <<>>
    ELSE (IF Head(row).t = "Port" THEN <<Head(row).v>> ELSE <<>>) \o MarkerPorts(Tail(row))

\* the position of the marker cell of port p
MarkerOf(row, p) ==
    CHOOSE k \in Markers(row) :
        row[k].v = p /\ \A j \in Markers(row) : row[j].v = p => k <= j

\* the greatest drive voltage over the ports of a header line
Vmax(row) ==
    CHOOSE v \in {row[k + 2].v : k \in Markers(row)} :
        \A k \in Markers(row) : row[k + 2].v <= v

\* P_req / P_native with P_req = 1e-3 * 10^(X/10) and P_native = V^2 / Z / 2,
\* as a fraction
PowerRatio(X, Z, V) ==
    IF X >= 0 THEN <<TenTo(X \div 10) * 2 * Z, 1000 * V * V>>
    ELSE <<2 * Z, 1000 * TenTo((0 - X) \div 10) * V * V>>

\* two fractions are the same float
SameFloat(a, b) == (a[2] = 0 <=> b[2] = 0) /\ a[1] * b[2] = b[1] * a[2]

\* C11: every cell of current_density(X, Z) is the cell of current_density()
\* at the same place times the square root of one fraction, which is
\* P_req / P_native for P_req = 1e-3 * 10^(X/10), P_native = Vmax^2 / Z / 2
\* and Vmax the greatest drive voltage over the ports of the header.
C11_RescaleFactor ==
    (call.op = "current_density" /\ call.args[1] # None /\ call.exc = "") =>
        /\ call.ret.shape = <<Len(YAxis(Data("d"))), Len(XAxis(Data("d")))>>
        /\ \A i \in 1..Len(YAxis(Data("d"))) : \A j \in 1..Len(XAxis(Data("d"))) :
              /\ call.ret.cells[i][j][1] = Values(Data("d"))[i][j]
              /\ SameFloat(call.ret.cells[i][j][2],
                           PowerRatio(call.args[1], call.args[2], Vmax(PortLine)))

C11_Witness ==
    /\ call.op = "current_density" /\ call.args = <<20, 50>> /\ call.exc = ""
    /\ HeaderLoaded /\ PortLine = ThreePortLine
    /\ call.ret.cells[NumY][NumX] = <<FileValue(NumY, NumX), <<10000, 9000>>>>

\* C12: ports returns the port numbers of the marker cells of header line 4
\* in the order of the cells, as many as there are marker cells; a call made
\* when the header is loaded returns what the header held before the call,
\* so every repeated call returns the same.
C12_PortsInMarkerOrder ==
    [][(call'.op = "ports" /\ call'.exc = "") =>
          /\ call'.ret = Arr1(MarkerPorts(PortLine'))
          /\ Len(Elems(call'.ret)) = Cardinality(Markers(PortLine'))
          /\ HeaderLoaded => call'.ret = Arr1(MarkerPorts(PortLine))]_vars

C12_Witness ==
    /\ call.op = "ports" /\ call.exc = "" /\ call.reads = {}
    /\ Elems(call.ret) = <<2, 1, 3>>
    /\ file.exists /\ file.header[4] # PortLine

\* C13: drive_voltage(p) and drive_phase(p) for p that is no port of the
\* header raise the ValueError whose message lists the ports as ports
\* returns them, and return nothing.
C13_UnknownPortFails ==
    ( /\ call.op \in {"drive_voltage", "drive_phase"}
      /\ HeaderLoaded
      /\ \A k \in Markers(PortLine) : PortLine[k].v # call.args[1] ) =>
        /\ call.exc = "ValueError"
        /\ call.listed = MarkerPorts(PortLine)
        /\ call.listed = Elems(ports(Self("d"), file).ret)
        /\ call.ret = NoArr

C13_Witness ==
    /\ call.op = "drive_phase" /\ call.args = <<3>>
    /\ HeaderLoaded /\ call.exc = "ValueError"
    /\ call.listed = <<1, 2>>

Raw(i, j) == Convert(file.body[i + 1][j + 1])
RawRows == Len(file.body)
RawCols == Len(file.body[1])

\* C15: in the state a call that loaded the data leaves (trim_data apart,
\* which goes on to trim), x_position is raw row 0 at columns 1..C-2,
\* y_position raw column 0 at rows 1..R-1 and current_density() the raw
\* cells at rows 1..R-1 and columns 1..C-2: the last raw column is dropped
\* and no accessor returns cell [0][0].
C15_LoadDropsLastColumn ==
    ("data" \in call.reads /\ call.op # "trim_data" /\ Loaded("d")) =>
        /\ x_position(Self("d"), file).ret =
              Arr1([j \in 1..(RawCols - 2) |-> Raw(0, j)])
        /\ y_position(Self("d"), file).ret =
              Arr1([i \in 1..(RawRows - 1) |-> Raw(i, 0)])
        /\ current_density(Self("d"), file, None, 50).ret =
              Arr2(RawRows - 1, RawCols - 2,
                   [i \in 1..(RawRows - 1) |-> [j \in 1..(RawCols - 2) |-> Raw(i, j)]])

C15_Witness ==
    /\ "data" \in call.reads /\ call.op = "y_position" /\ call.exc = ""
    /\ Loaded("d")
    /\ file = GridFile(FALSE, FALSE)
    /\ RawCols = NumX + 2
    /\ Elems(x_position(Self("d"), file).ret)[1] = NumX

\* C17: construction with load_on_init false opens nothing and gives a
\* document with header and data unloaded; construction with load_on_init
\* true gives a document only when it raised nothing, and that document has
\* both loaded.
C17_Construction ==
    call.op = "init" =>
        /\ call.args = <<0>> =>
              /\ call.exc = "" /\ call.reads = {}
              /\ Bound("d")
              /\ ~Obj("d").data_loaded /\ ~Obj("d").header_loaded
              /\ Obj("d").data = 0 /\ Obj("d").header = <<>>
        /\ call.args = <<1>> =>
              /\ Bound("d") <=> call.exc = ""
              /\ Bound("d") => Obj("d").data_loaded /\ Obj("d").header_loaded
              /\ Bound("d") => call.reads = {"data", "header"}

C17_Witness ==
    /\ call.op = "init" /\ call.args = <<1>>
    /\ call.exc = "IndexError" /\ ~Bound("d")
    /\ file = OneRowFile

\* the numeric header fields and where the header holds them: line and cell,
\* counted from 1
NumericCells ==
    [frequency |-> <<3, 2>>, level |-> <<5, 3>>, position_unit |-> <<6, 3>>,
     dx |-> <<7, 2>>, dy |-> <<7, 5>>, area |-> <<7, 10>>]

\* the last call asked for a numeric field
NumericCall ==
    \/ call.op \in DOMAIN NumericCells
    \/ /\ call.op \in {"drive_voltage", "drive_phase"}
       /\ \E k \in Markers(PortLine) : PortLine[k].v = call.args[1]

\* the header line and the position in it of the cell of that field
FieldLine ==
    IF call.op \in DOMAIN NumericCells THEN Obj("d").header[NumericCells[call.op][1]]
    ELSE PortLine
FieldAt ==
    IF call.op \in DOMAIN NumericCells THEN NumericCells[call.op][2]
    ELSE MarkerOf(PortLine, call.args[1]) + (IF call.op = "drive_voltage" THEN 2 ELSE 4)

\* the last call asked for a numeric field whose cell holds text that is not
\* a number
MalformedAsked ==
    /\ HeaderLoaded /\ NumericCall
    /\ FieldAt <= Len(FieldLine)
    /\ FieldLine[FieldAt].t = "txt"

\* C16 as stated: a numeric field whose cell is not a number fails with an
\* error that identifies the field, and returns nothing.
C16_MalformedNamesField ==
    MalformedAsked =>
        /\ call.exc = "ValueError"
        /\ call.msg = call.op
        /\ call.ret = NoArr /\ call.sret = ""

\* C16 amended: a numeric field whose cell is not a number fails with the
\* ValueError of the conversion, whose message quotes the text of the cell
\* and not the field; the call returns nothing.
C16_MalformedQuotesText ==
    MalformedAsked =>
        /\ call.exc = "ValueError"
        /\ call.msg = FieldLine[FieldAt].s
        /\ call.msg # call.op
        /\ call.ret = NoArr /\ call.sret = ""

C16_Witness ==
    /\ MalformedAsked /\ call.op = "drive_voltage" /\ call.args = <<1>>
    /\ call.exc = "ValueError" /\ call.msg = "2V"
    /\ call.reads = {}

\* the step of an axis as the header of the document gives it
HeaderStep(name) == Obj("d").header[Fields[name][1]][Fields[name][2]].v

\* the positions are step apart
Uniform(c, step) ==
    \A k \in 1..(Len(c) - 1) : c[k + 1] - c[k] = step \/ c[k] - c[k + 1] = step

\* e holds twice the edges the claim gives for the centers c
EdgesAround(e, c, step) ==
    LET n == Len(c)
        s == IF c[n] > c[n - 1] THEN 1 ELSE IF c[n] < c[n - 1] THEN 0 - 1 ELSE 0
    IN  /\ n >= 2
        /\ Len(e) = n + 1
        /\ \A k \in 1..n : e[k] = 2 * c[k] - step * s
        /\ e[n + 1] = 2 * c[n] + step * s
        /\ Uniform(c, step) => \A k \in 1..n : e[k] + e[k + 1] = 4 * c[k]

\* C18: the pixel edges plot_current draws for an axis of n >= 2 centers are
\* n + 1, each center minus half the step in the direction of the axis and
\* then the last center plus half the step, so that every center of a
\* uniformly spaced axis is midway between two consecutive edges; for the
\* centers 1, 2, 3 and step 1 they are 0.5, 1.5, 2.5, 3.5 (edges are held
\* as twice their value).
C18_PixelEdges ==
    /\ pixel_edges(<<1, 2, 3>>, 1) = <<1, 3, 5, 7>>
    /\ (call.op = "plot_current" /\ call.exc = "") =>
          /\ EdgesAround(call.plot.x, XAxis(Data("d")), HeaderStep("dx"))
          /\ EdgesAround(call.plot.y, YAxis(Data("d")), HeaderStep("dy"))

C18_Witness ==
    /\ call.op = "plot_current" /\ call.exc = ""
    /\ HeaderStep("dx") = 2
    /\ XAxis(Data("d"))[1] > XAxis(Data("d"))[2]
    /\ call.plot.x[1] = 2 * XAxis(Data("d"))[1] + 2
    /\ Len(call.plot.x) = NumX + 1

\* the current densities of the document
Densities ==
    {Values(Data("d"))[i][j] :
        i \in 1..Len(YAxis(Data("d"))), j \in 1..Len(XAxis(Data("d")))}

\* C19: the ticks plot_current gives the color bar never decrease, the last
\* is at most the greatest current density, and the precision r they are
\* rounded to is 1 - floor(log10(t)) for t the second tick before rounding,
\* which is (8 * min + max) / 9 (ticks are held in units of 10^-r).
C19_TicksMonotoneBelowMax ==
    (call.op = "plot_current" /\ call.exc = "") =>
        LET t == call.plot.ticks
            r == call.plot.r
            lo == CHOOSE v \in Densities : \A w \in Densities : v <= w
            hi == CHOOSE v \in Densities : \A w \in Densities : v >= w
        IN  /\ Len(t) = 10
            /\ r <= 1
            /\ 9 * TenTo(1 - r) <= 8 * lo + hi
            /\ 8 * lo + hi < 9 * TenTo(2 - r)
            /\ IF r >= 0 THEN t[10] <= hi * TenTo(r) ELSE t[10] * TenTo(0 - r) <= hi
            /\ \A k \in 1..9 : t[k] <= t[k + 1]

\* the process the last call started: the command given to Popen
Started == proj.log # <<>> /\ proj.log[Len(proj.log)][1] = "Popen"

\* C20: a run without file_path on a project no file was ever made of ends
\* with an error and starts no process; a run with file_path that starts
\* the process has made the file of that path first and nothing else, and
\* starts the process on that path, which is the project_file_path.
C20_RunRequiresProjectFile ==
    call.op = "run" =>
        /\ (call.args[2] = None /\ proj.disk = {}) => (call.exc # "" /\ ~Started)
        /\ (call.args[2] # None /\ Started) =>
              /\ call.exc = ""
              /\ Len(proj.log) = 2
              /\ proj.log[1] = <<"make_sonnet_file", call.args[2]>>
              /\ proj.log[2][4] = call.args[2]
              /\ proj.project_file_path = call.args[2]
              /\ call.args[2] \in proj.disk

C20_Witness ==
    /\ call.op = "run" /\ call.args = <<"frequency", 2>> /\ call.exc = ""
    /\ Started
    /\ proj.disk = {1, 2}
    /\ proj.project_file_path = 2

\* C21: after c = d.copy(), a trim_data through one of the two variables
\* leaves the array of the axes and the values of the document of the other
\* variable, when its data is loaded, exactly what it was, and its loaded
\* flag true; this holds of every trim of every sequence of trims.
C21_TrimOnCopyKeepsOriginal ==
    [][(hist # <<>> /\ hist[1].op = "copy" /\ call'.op = "trim_data")
          => \A n \in Names :
                (call'.obj # n /\ Loaded(n)) =>
                    /\ Loaded(n)'
                    /\ Data(n)' = Data(n)
                    /\ Grid(Data(n))' = Grid(Data(n))]_vars

C21_Witness ==
    /\ hist # <<>> /\ hist[1].op = "copy"
    /\ call.op = "trim_data" /\ call.obj = "c" /\ call.exc = ""
    /\ Loaded("d") /\ Loaded("c")
    /\ Obj("d").data # Obj("c").data
    /\ Len(XAxis(Data("c"))) < Len(XAxis(Data("d")))
    /\ Len(XAxis(Data("d"))) = NumX

\* the calls that are header accessors, and those that are data accessors
HeaderCall(c) == c.op \in FieldNames \cup {"ports", "drive_voltage", "drive_phase"}
DataCall(c) ==
    \/ c.op \in {"x_position", "y_position", "trim_data"}
    \/ c.op = "current_density" /\ c.args[1] = None

\* a header accessor opens at most the header and leaves the data loaded flag
\* and the array as they were; a data accessor opens at most the data and
\* leaves the header loaded flag and the header rows as they were
LoadsOwnPart ==
    /\ (Bound("d") /\ HeaderCall(call')) =>
          /\ call'.reads \subseteq {"header"}
          /\ Obj("d").data_loaded' = Obj("d").data_loaded
          /\ Obj("d").data' = Obj("d").data
          /\ Data("d")' = Data("d")
    /\ (Bound("d") /\ DataCall(call')) =>
          /\ call'.reads \subseteq {"data"}
          /\ Obj("d").header_loaded' = Obj("d").header_loaded
          /\ Obj("d").header' = Obj("d").header

\* C22 as stated, read of the calls made on a document once it is
\* constructed: header accessors and data accessors load their own part
\* only, and a call that opens the file for both the header and the data
\* computes current_density with power set, itself or for the interpolant
\* of current_density_function.
C22_OnlyDensityLoadsBoth ==
    [][/\ LoadsOwnPart
       /\ (call'.reads = {"header", "data"} /\ call'.op # "init") =>
             /\ call'.op \in {"current_density", "current_density_function"}
             /\ call'.args[1] # None]_vars

\* C22: header accessors and data accessors load their own part only, and a
\* call that opens the file for both the header and the data is
\* current_density or current_density_function with power set, plot_current,
\* or the construction with load_on_init.
C22_LoadsIndependent ==
    [][/\ LoadsOwnPart
       /\ call'.reads = {"header", "data"} =>
             \/ call'.op \in {"current_density", "current_density_function"}
                  /\ call'.args[1] # None
             \/ call'.op = "plot_current"
             \/ call'.op = "init" /\ call'.args = <<1>>]_vars

C22_Witness ==
    /\ call.op = "plot_current" /\ call.exc = ""
    /\ call.reads = {"header", "data"}
    /\ Loaded("d") /\ HeaderLoaded

============================================================================
